---- MODULE Spec2Model ----
(***************************************************************************)
(* Model of the AudioToolkit loudness normaliser (audio_normalizer.py):    *)
(* the NormalizationApp front end that validates the configuration and     *)
(* creates a NormalizationWorker, and the worker thread's run() loop over  *)
(* the discovered audio files, with stop() arriving from another thread.   *)
(* Loudness values are fixed-point, in tenths of a loudness unit; the      *)
(* float specials (-inf, +inf, nan) are kept as separate kinds.            *)
(* The gain calculation and the sample conversion of normalize_audio are  *)
(* also checked on their own (SpecGain, SpecPcm), and ConversionWorker.run *)
(* of audio_converter.py has a specification of its own (SpecConv), as   *)
(* have the folder scan of audio_checker.py (SpecChk) and the metadata     *)
(* dialog of audio_file_editor.py (SpecEdit).                              *)
(***************************************************************************)
EXTENDS Integers, Sequences, FiniteSets, TLC

VARIABLES
    \* ---- NormalizationApp (GUI thread) ----
    worker_thread,    \* "None" or "Worker": NormalizationApp.worker_thread
    start_enabled,    \* start_button.isEnabled()
    clicked,          \* the three texts read by the last start_normalization
    warning,          \* the QMessageBox.warning shown by that call, or "none"
    \* ---- NormalizationWorker fields ----
    input_folder, output_folder, target_loudness, is_running,
    \* ---- NormalizationWorker.run (worker thread) ----
    pc,               \* position of run()
    total_files,      \* len(audio_files)
    idx,              \* enumerate(audio_files, start=1)
    existed,          \* os.path.exists(output_path) for the current file
    loudness,         \* meter.integrated_loudness(samples) of the current file
    gain_db,          \* the gain pyln.normalize.loudness applied to it
    events,           \* calls and status messages of the current file, in order
    outcomes,         \* per visited file, the message that ended its iteration
    progress_log,     \* values emitted on the progress signal
    finished_count,   \* number of finished.emit() calls
    sample_width,     \* audio.sample_width of the loaded file, in bytes
    normalized_audio, \* what normalize_audio returned: "original" or "new"
    \* ---- gain calculator checked on its own ----
    g_pc, g_loudness, g_target, g_max, g_out,
    g_loudness2, g_out2,   \* a second measured loudness, same target
    \* ---- sample conversion checked on its own ----
    p_pc,             \* "in" before normalize_audio, "out" after
    p_width,          \* audio_segment.sample_width
    p_channels,       \* audio_segment.channels
    p_samples,        \* get_array_of_samples(): interleaved integers
    p_gain,           \* the linear gain, as a fraction [n, d]
    p_float,          \* dtype of normalized_samples: "float32" or "float64"
    p_out,            \* what normalize_audio hands to AudioSegment
    \* ---- ConversionWorker.run (audio_converter.py) ----
    c_pc,             \* position of run()
    c_total,          \* total_files = len(self.input_files)
    c_idx,            \* enumerate(self.input_files, start=1)
    c_attempt,        \* attempt of the artwork retry loop
    c_retry_delay,    \* retry_delay, in seconds
    c_events,         \* signals emitted and calls made, in order
    \* ---- AudioCheckerApp.check_audio_files (audio_checker.py) ----
    k_pc,             \* "idle", "scan", "done", or "raised"
    k_total,          \* supported files os.walk will yield
    k_idx,            \* number of the file being examined
    k_audio_files,    \* self.audio_files: one AudioFileInfo per entry
    k_audio_list,     \* self.audio_list: the lufs shown by each item
    k_box,            \* the QMessageBox shown by the call, or "none"
    \* ---- MetadataEditorApp and its dialog (audio_file_editor.py) ----
    e_fs,             \* the folder: for every path, the file there or NoFile
    e_items,          \* item.data(Qt.UserRole) of the list items
    e_item,           \* the item whose dialog is open, 0 for none
    e_file_path,      \* dialog.file_path
    e_box             \* the QMessageBox shown by the last save_metadata

appvars == <<worker_thread, start_enabled, clicked, warning>>
cfgvars == <<input_folder, output_folder, target_loudness>>
runvars == <<pc, total_files, idx, existed, loudness, gain_db, events,
             outcomes, progress_log, finished_count, sample_width,
             normalized_audio>>
gvars   == <<g_pc, g_loudness, g_target, g_max, g_out, g_loudness2, g_out2>>
pvars   == <<p_pc, p_width, p_channels, p_samples, p_gain, p_float, p_out>>
cvars   == <<c_pc, c_total, c_idx, c_attempt, c_retry_delay, c_events>>
kvars   == <<k_pc, k_total, k_idx, k_audio_files, k_audio_list, k_box>>
evars   == <<e_fs, e_items, e_item, e_file_path, e_box>>
vars    == <<appvars, cfgvars, is_running, runvars, gvars, pvars, cvars,
             kvars, evars>>

----------------------------------------------------------------------------
(* Bounds *)

MaxFiles == 3          \* most files os.listdir returns in a run
MaxChannels == 2       \* most channels of a buffer in the layout cases
MaxFrames == 2         \* most frames of a buffer in the layout cases
MaxConvFiles == 2      \* most input files handed to a ConversionWorker
MaxCheckFiles == 3     \* most supported files os.walk yields to the checker
GainLo   == 45         \* measured loudness and target go down to -GainLo LU
GainHi   == 3          \* highest measured loudness tried, in LU

----------------------------------------------------------------------------
(* Float values: tenths of a unit, plus the IEEE specials *)

Num(n) == [k |-> "num", v |-> n]
NegInf == [k |-> "-inf", v |-> 0]
PosInf == [k |-> "+inf", v |-> 0]
NaN    == [k |-> "nan", v |-> 0]

\* a - b on floats
FSub(a, b) ==
    IF a.k = "nan" \/ b.k = "nan" THEN NaN
    ELSE IF a.k = "num" /\ b.k = "num" THEN Num(a.v - b.v)
    ELSE IF a.k = "num" THEN (IF b.k = "-inf" THEN PosInf ELSE NegInf)
    ELSE IF b.k = "num" THEN a
    ELSE IF a.k = b.k THEN NaN
    ELSE a

\* a + b on floats
FAdd(a, b) ==
    IF a.k = "nan" \/ b.k = "nan" THEN NaN
    ELSE IF a.k = "num" /\ b.k = "num" THEN Num(a.v + b.v)
    ELSE IF a.k = "num" THEN b
    ELSE IF b.k = "num" THEN a
    ELSE IF a.k = b.k THEN a
    ELSE NaN

\* a > b on floats (every comparison with nan is false)
FGt(a, b) ==
    IF a.k = "nan" \/ b.k = "nan" THEN FALSE
    ELSE IF a.k = "+inf" THEN b.k # "+inf"
    ELSE IF a.k = "-inf" THEN FALSE
    ELSE IF b.k = "+inf" THEN FALSE
    ELSE IF b.k = "-inf" THEN TRUE
    ELSE a.v > b.v

\* a <= b on floats
FLe(a, b) ==
    IF a.k = "nan" \/ b.k = "nan" THEN FALSE
    ELSE ~FGt(a, b)

----------------------------------------------------------------------------
(* NormalizationApp.start_normalization: the texts a user can enter *)

FolderTexts == {"", " ", "missing", "song.wav", " dirA "}
TargetTexts == {"-60", "0", "-7", "-60.1", "0.1", "abc", "", "nan", "-inf"}

\* str.strip() on the texts above
Strip(t) ==
    CASE t = " "      -> ""
      [] t = " dirA " -> "dirA"
      [] OTHER        -> t

\* os.path.isdir: "dirA" is the one directory of the modelled file system,
\* "song.wav" is a regular file and "missing" names nothing
IsDir(p) == p = "dirA"

\* float(text): the value in tenths, or the ValueError it raises
ParseFloat(t) ==
    CASE t = "-60"   -> [raised |-> FALSE, val |-> Num(-600)]
      [] t = "0"     -> [raised |-> FALSE, val |-> Num(0)]
      [] t = "-7"    -> [raised |-> FALSE, val |-> Num(-70)]
      [] t = "-60.1" -> [raised |-> FALSE, val |-> Num(-601)]
      [] t = "0.1"   -> [raised |-> FALSE, val |-> Num(1)]
      [] t = "nan"   -> [raised |-> FALSE, val |-> NaN]
      [] t = "-inf"  -> [raised |-> FALSE, val |-> NegInf]
      [] OTHER       -> [raised |-> TRUE,  val |-> NaN]

\* -60.0 <= target_loudness <= 0.0
TargetInRange(x) == FLe(Num(-600), x) /\ FLe(x, Num(0))

\* ConfigCheck with the range test written with strict inequalities
ConfigCheck_StrictRange(inp, out, tgt) ==
    IF Strip(inp) = "" \/ ~IsDir(Strip(inp)) THEN "input"
    ELSE IF Strip(out) = "" \/ ~IsDir(Strip(out)) THEN "output"
    ELSE IF ParseFloat(Strip(tgt)).raised THEN "numeric"
    ELSE IF ~(FGt(ParseFloat(Strip(tgt)).val, Num(-600))
              /\ FGt(Num(0), ParseFloat(Strip(tgt)).val)) THEN "range"
    ELSE "none"

\* the first check of start_normalization that fails, or "none"
ConfigCheck(inp, out, tgt) ==
    IF Strip(inp) = "" \/ ~IsDir(Strip(inp)) THEN "input"
    ELSE IF Strip(out) = "" \/ ~IsDir(Strip(out)) THEN "output"
    ELSE IF ParseFloat(Strip(tgt)).raised THEN "numeric"
    ELSE IF ~TargetInRange(ParseFloat(Strip(tgt)).val) THEN "range"
    ELSE "none"

NoClick == [inp |-> "-", out |-> "-", tgt |-> "-"]
NoFloat == Num(0)

\* the worker's run() state before run() is entered
RunIdle ==
    /\ pc = "idle"
    /\ total_files = 0
    /\ idx = 0
    /\ existed = FALSE
    /\ loudness = NoFloat
    /\ gain_db = NoFloat
    /\ events = <<>>
    /\ outcomes = <<>>
    /\ progress_log = <<>>
    /\ finished_count = 0
    /\ sample_width = 0
    /\ normalized_audio = "none"

NoWorker ==
    /\ worker_thread = "None"
    /\ input_folder = ""
    /\ output_folder = ""
    /\ target_loudness = NoFloat
    /\ is_running = TRUE

GainIdle ==
    /\ g_pc = "off"
    /\ g_loudness = NoFloat
    /\ g_target = NoFloat
    /\ g_max = NoFloat
    /\ g_out = [gain |-> NoFloat, clamped |-> FALSE]
    /\ g_loudness2 = NoFloat
    /\ g_out2 = [gain |-> NoFloat, clamped |-> FALSE]

PcmIdle ==
    /\ p_pc = "off"
    /\ p_width = 0
    /\ p_channels = 0
    /\ p_samples = <<>>
    /\ p_gain = [n |-> 1, d |-> 1]
    /\ p_float = "none"
    /\ p_out = [kind |-> "none"]

ConvIdle ==
    /\ c_pc = "off"
    /\ c_total = 0
    /\ c_idx = 0
    /\ c_attempt = 0
    /\ c_retry_delay = 0
    /\ c_events = <<>>

ChkIdle ==
    /\ k_pc = "off"
    /\ k_total = 0
    /\ k_idx = 0
    /\ k_audio_files = <<>>
    /\ k_audio_list = <<>>
    /\ k_box = "none"

EditIdle ==
    /\ e_fs = <<>>
    /\ e_items = <<>>
    /\ e_item = 0
    /\ e_file_path = <<>>
    /\ e_box = "none"

\* NormalizationApp.__init__
Init ==
    /\ NoWorker
    /\ start_enabled = TRUE
    /\ clicked = NoClick
    /\ warning = "none"
    /\ RunIdle
    /\ GainIdle
    /\ PcmIdle
    /\ ConvIdle
    /\ ChkIdle
    /\ EditIdle

\* the "Start Normalization" button, with the texts of the three line edits
start_normalization(inp, out, tgt) ==
    /\ start_enabled
    /\ clicked' = [inp |-> inp, out |-> out, tgt |-> tgt]
    /\ warning' = ConfigCheck(inp, out, tgt)
    /\ IF ConfigCheck(inp, out, tgt) # "none"
       THEN UNCHANGED <<worker_thread, start_enabled, cfgvars, is_running,
                        runvars>>
       ELSE /\ start_enabled' = FALSE
            /\ worker_thread' = "Worker"
            \* NormalizationWorker.__init__
            /\ input_folder' = Strip(inp)
            /\ output_folder' = Strip(out)
            /\ target_loudness' = ParseFloat(Strip(tgt)).val
            /\ is_running' = TRUE
            \* QThread.start(): run() begins on the worker thread
            /\ pc' = "run"
            /\ UNCHANGED <<total_files, idx, existed, loudness, gain_db,
                           events, outcomes, progress_log, finished_count,
                           sample_width, normalized_audio>>
    /\ UNCHANGED <<gvars, pvars, kvars, evars, cvars>>

StartNormalization ==
    \E inp \in FolderTexts, out \in FolderTexts, tgt \in TargetTexts :
        start_normalization(inp, out, tgt)

\* stop as a toggle of the flag
stop_Toggle ==
    /\ worker_thread = "Worker"
    /\ is_running' = ~is_running
    /\ UNCHANGED <<appvars, cfgvars, runvars, gvars, pvars, kvars, evars, cvars>>

\* NormalizationWorker.stop, called from any other thread
stop ==
    /\ worker_thread = "Worker"
    /\ is_running' = FALSE
    /\ UNCHANGED <<appvars, cfgvars, runvars, gvars, pvars, kvars, evars, cvars>>

\* the slot connected to the worker's finished signal
processing_finished ==
    /\ pc = "done"
    /\ start_enabled' = TRUE
    \* the texts read by the click that started this worker are forgotten
    /\ clicked' = NoClick
    /\ warning' = "none"
    /\ worker_thread' = "None"
    \* the worker object is dropped
    /\ input_folder' = ""
    /\ output_folder' = ""
    /\ target_loudness' = NoFloat
    /\ is_running' = TRUE
    /\ pc' = "idle"
    /\ total_files' = 0
    /\ idx' = 0
    /\ existed' = FALSE
    /\ loudness' = NoFloat
    /\ gain_db' = NoFloat
    /\ events' = <<>>
    /\ outcomes' = <<>>
    /\ progress_log' = <<>>
    /\ finished_count' = 0
    /\ sample_width' = 0
    /\ normalized_audio' = "none"
    /\ UNCHANGED <<gvars, pvars, kvars, evars, cvars>>

----------------------------------------------------------------------------
(* NormalizationWorker *)

\* normalize_audio(..., max_gain_increase=6.0), in tenths
max_gain_increase == 60

\* normalize_gain with the limited target set to max_gain_increase itself
normalize_gain_WrongLimit(loud, target, maxg) ==
    LET gain_needed == FSub(target, loud)
        limited     == FGt(gain_needed, maxg)
        target2     == IF limited THEN maxg ELSE target
    IN  [gain |-> FSub(target2, loud), clamped |-> limited]

\* normalize_gain with the two loudness arguments of the difference swapped
normalize_gain_Swapped(loud, target, maxg) ==
    LET gain_needed == FSub(target, loud)
        limited     == FGt(gain_needed, maxg)
        target2     == IF limited THEN FAdd(loud, maxg) ELSE target
    IN  [gain |-> FSub(loud, target2), clamped |-> limited]

\* the gain part of normalize_audio: the limit on the increase, then the
\* difference pyln.normalize.loudness(samples, loudness, target) applies
normalize_gain(loud, target, maxg) ==
    LET gain_needed == FSub(target, loud)
        limited     == FGt(gain_needed, maxg)
        target2     == IF limited THEN FAdd(loud, maxg) ELSE target
    IN  [gain |-> FSub(target2, loud), clamped |-> limited]

\* values integrated_loudness returns in the worker runs
LoudnessValues == {NegInf, Num(-400), Num(-130), Num(-70), Num(-10)}

\* int((idx / total_files) * 100)
progress_percent(i, n) == (i * 100) \div n

Outcome(res) == [file |-> idx, result |-> res]

\* the except and finally clauses of run(), entered from the loop body
RunExcept(evs) ==
    /\ events' = evs \o <<"status:An error occurred">>
    /\ outcomes' = Append(outcomes, Outcome("An error occurred"))
    /\ finished_count' = finished_count + 1
    /\ pc' = "done"

\* run(): get_audio_files and the count of what it found
GetAudioFiles ==
    /\ pc = "run"
    /\ \/ \* os.listdir raises
          /\ events' = <<"status:An error occurred">>
          /\ finished_count' = finished_count + 1
          /\ pc' = "done"
          /\ UNCHANGED <<total_files, idx>>
       \/ \* no audio file: finished is emitted before return and in finally
          /\ events' = <<"status:No audio files found">>
          /\ finished_count' = finished_count + 2
          /\ pc' = "done"
          /\ UNCHANGED <<total_files, idx>>
       \/ \E n \in 1..MaxFiles :
          /\ total_files' = n
          /\ idx' = 1
          /\ events' = <<"status:Found">>
          /\ pc' = "loop"
          /\ UNCHANGED finished_count
    /\ UNCHANGED <<appvars, cfgvars, is_running, existed, loudness, gain_db,
                   outcomes, progress_log, gvars, pvars, kvars, evars, cvars,
                   sample_width, normalized_audio>>

\* LoopHead without the is_running test
LoopHead_NoCancelTest ==
    /\ pc = "loop"
    /\ IF idx > total_files
       THEN /\ events' = <<"status:Normalization complete">>
            /\ finished_count' = finished_count + 1
            /\ pc' = "done"
            /\ UNCHANGED existed
       ELSE \E ex \in BOOLEAN :
            /\ existed' = ex
            /\ events' = IF ex THEN <<"status:already exists">>
                               ELSE <<"status:Processing">>
            /\ pc' = IF ex THEN "exists" ELSE "load"
            /\ UNCHANGED finished_count
    /\ loudness' = NoFloat
    /\ gain_db' = NoFloat
    /\ sample_width' = 0
    /\ normalized_audio' = "none"
    /\ UNCHANGED <<appvars, cfgvars, is_running, total_files, idx, outcomes,
                   progress_log, gvars, pvars, kvars, evars, cvars>>

\* the head of the for loop: next file, the is_running test, os.path.exists
LoopHead ==
    /\ pc = "loop"
    /\ IF idx > total_files \/ ~is_running
       THEN /\ events' = <<"status:Normalization complete">>
            /\ finished_count' = finished_count + 1
            /\ pc' = "done"
            /\ UNCHANGED existed
       ELSE \E ex \in BOOLEAN :
            /\ existed' = ex
            /\ events' = IF ex THEN <<"status:already exists">>
                               ELSE <<"status:Processing">>
            /\ pc' = IF ex THEN "exists" ELSE "load"
            /\ UNCHANGED finished_count
    /\ loudness' = NoFloat
    /\ gain_db' = NoFloat
    /\ sample_width' = 0
    /\ normalized_audio' = "none"
    /\ UNCHANGED <<appvars, cfgvars, is_running, total_files, idx, outcomes,
                   progress_log, gvars, pvars, kvars, evars, cvars>>

\* what check_metadata can do: return True, return False, or catch an
\* exception of music_tag, report it and return False
CheckMetadataResults ==
    { <<"check_metadata=True">>,
      <<"check_metadata=False">>,
      <<"status:Error checking metadata", "check_metadata=False">> }

\* what copy_metadata can do: save the tags, or catch and report an exception
CopyMetadataResults ==
    { <<"copy_metadata">>,
      <<"copy_metadata", "status:Error copying metadata">> }

IsComplete(checked) == checked[Len(checked)] = "check_metadata=True"

\* ExistingOutput with the test of check_metadata inverted
ExistingOutput_Inverted ==
    /\ pc = "exists"
    /\ \E checked \in CheckMetadataResults :
          IF ~IsComplete(checked)
          THEN /\ events' = events \o checked \o <<"status:Skipping">>
               /\ outcomes' = Append(outcomes, Outcome("Skipping"))
          ELSE \E copied \in CopyMetadataResults :
               /\ events' = events \o checked \o copied
                                   \o <<"status:Copied missing metadata">>
               /\ outcomes' = Append(outcomes,
                                     Outcome("Copied missing metadata"))
    /\ idx' = idx + 1
    /\ pc' = "loop"
    /\ UNCHANGED <<appvars, cfgvars, is_running, total_files, existed,
                   loudness, gain_db, progress_log, finished_count, gvars, pvars, kvars, evars, cvars,
                   sample_width, normalized_audio>>

\* ExistingOutput without the continue that ends the branch
ExistingOutput_NoContinue ==
    /\ pc = "exists"
    /\ \E checked \in CheckMetadataResults :
          IF IsComplete(checked)
          THEN /\ events' = events \o checked \o <<"status:Skipping">>
               /\ outcomes' = Append(outcomes, Outcome("Skipping"))
          ELSE \E copied \in CopyMetadataResults :
               /\ events' = events \o checked \o copied
                                   \o <<"status:Copied missing metadata">>
               /\ outcomes' = Append(outcomes,
                                     Outcome("Copied missing metadata"))
    /\ pc' = "load"
    /\ UNCHANGED <<appvars, cfgvars, is_running, total_files, idx, existed,
                   loudness, gain_db, progress_log, finished_count, gvars, pvars, kvars, evars, cvars,
                   sample_width, normalized_audio>>

\* the branch for an output file that already exists
ExistingOutput ==
    /\ pc = "exists"
    /\ \E checked \in CheckMetadataResults :
          IF IsComplete(checked)
          THEN /\ events' = events \o checked \o <<"status:Skipping">>
               /\ outcomes' = Append(outcomes, Outcome("Skipping"))
          ELSE \E copied \in CopyMetadataResults :
               /\ events' = events \o checked \o copied
                                   \o <<"status:Copied missing metadata">>
               /\ outcomes' = Append(outcomes,
                                     Outcome("Copied missing metadata"))
    /\ idx' = idx + 1
    /\ pc' = "loop"
    /\ UNCHANGED <<appvars, cfgvars, is_running, total_files, existed,
                   loudness, gain_db, progress_log, finished_count, gvars, pvars, kvars, evars, cvars,
                   sample_width, normalized_audio>>

\* sample widths an AudioSegment is loaded with, in bytes
SampleWidths == {1, 2, 3, 4, 8}

\* LoadAudio without the "if audio is None: continue"
LoadAudio_NoContinue ==
    /\ pc = "load"
    /\ \/ \E w \in SampleWidths :
          /\ sample_width' = w
          /\ events' = events \o <<"load_audio">>
       \/ /\ events' = events \o <<"load_audio", "status:Error loading">>
          /\ UNCHANGED sample_width
    /\ pc' = "measure"
    /\ UNCHANGED <<appvars, cfgvars, is_running, total_files, idx, existed,
                   loudness, gain_db, outcomes, progress_log, finished_count,
                   normalized_audio, gvars, pvars, kvars, evars, cvars>>

\* load_audio and the test of its result
LoadAudio ==
    /\ pc = "load"
    /\ \/ \E w \in SampleWidths :
          /\ sample_width' = w
          /\ events' = events \o <<"load_audio">>
          /\ pc' = "measure"
          /\ UNCHANGED <<idx, outcomes>>
       \/ \* AudioSegment.from_file raises: load_audio returns None
          /\ events' = events \o <<"load_audio", "status:Error loading">>
          /\ outcomes' = Append(outcomes, Outcome("Error loading"))
          /\ idx' = idx + 1
          /\ pc' = "loop"
          /\ UNCHANGED sample_width
    /\ UNCHANGED <<appvars, cfgvars, is_running, total_files, existed,
                   loudness, gain_db, progress_log, finished_count,
                   normalized_audio, gvars, pvars, kvars, evars, cvars>>

\* Measure handing the segment straight to save_audio
Measure_SkipsNormalize ==
    /\ pc = "measure"
    /\ \/ \E l \in LoudnessValues :
          /\ loudness' = l
          /\ events' = events \o <<"integrated_loudness",
                                   "status:Original Loudness">>
          /\ pc' = "save"
          /\ UNCHANGED <<outcomes, finished_count>>
       \/ /\ RunExcept(events \o <<"integrated_loudness">>)
          /\ UNCHANGED loudness
    /\ UNCHANGED <<appvars, cfgvars, is_running, total_files, idx, existed,
                   gain_db, progress_log, gvars, pvars, kvars, evars, cvars,
                   sample_width, normalized_audio>>

\* audiosegment_to_numpy, pyln.Meter(rate), meter.integrated_loudness
Measure ==
    /\ pc = "measure"
    /\ \/ \E l \in LoudnessValues :
          /\ loudness' = l
          /\ events' = events \o <<"integrated_loudness",
                                   "status:Original Loudness">>
          /\ pc' = "normalize"
          /\ UNCHANGED <<outcomes, finished_count>>
       \/ \* the meter raises (audio shorter than one gating block, more
          \* than five channels): nothing in the loop body catches it
          /\ RunExcept(events \o <<"integrated_loudness">>)
          /\ UNCHANGED loudness
    /\ UNCHANGED <<appvars, cfgvars, is_running, total_files, idx, existed,
                   gain_db, progress_log, gvars, pvars, kvars, evars, cvars,
                   sample_width, normalized_audio>>

\* sample_width_to_dtype.get(sample_width): the item size in bytes of the
\* numpy type (int8, int16, int32, int32), 0 for None
sample_width_to_dtype(w) ==
    CASE w = 1 -> 1
      [] w = 2 -> 2
      [] w = 3 -> 4
      [] w = 4 -> 4
      [] OTHER -> 0

\* Normalize without the test for a missing dtype
Normalize_NoWidthCheck ==
    /\ pc = "normalize"
    /\ LET g == normalize_gain(loudness, target_loudness, Num(max_gain_increase))
           called == events \o <<"normalize_audio">>
                            \o (IF g.clamped
                                THEN <<"status:Limiting gain increase">>
                                ELSE <<>>)
       IN  \/ /\ gain_db' = g.gain
              /\ normalized_audio' = "new"
              /\ events' = called \o <<"normalize.loudness", "astype",
                                        "status:Normalized to">>
              /\ pc' = "save"
              /\ UNCHANGED <<outcomes, finished_count>>
           \/ /\ RunExcept(called)
              /\ UNCHANGED <<gain_db, normalized_audio>>
    /\ UNCHANGED <<appvars, cfgvars, is_running, total_files, idx, existed,
                   loudness, progress_log, sample_width, gvars, pvars, kvars, evars, cvars>>

\* normalize_audio and the "Normalized to" message of run()
Normalize ==
    /\ pc = "normalize"
    /\ LET g == normalize_gain(loudness, target_loudness, Num(max_gain_increase))
           called == events \o <<"normalize_audio">>
                            \o (IF g.clamped
                                THEN <<"status:Limiting gain increase">>
                                ELSE <<>>)
       IN  \/ /\ gain_db' = g.gain
              /\ IF sample_width_to_dtype(sample_width) = 0
                 THEN \* no dtype: the original segment is returned
                      /\ normalized_audio' = "original"
                      /\ events' = called
                                   \o <<"normalize.loudness",
                                        "status:Unsupported sample width",
                                        "status:Normalized to">>
                 ELSE \* the gain (line 160), then the quantization (line 173)
                      /\ normalized_audio' = "new"
                      /\ events' = called \o <<"normalize.loudness", "astype",
                                                "status:Normalized to">>
              /\ pc' = "save"
              /\ UNCHANGED <<outcomes, finished_count>>
           \/ \* an exception inside normalize_audio
              /\ RunExcept(called)
              /\ UNCHANGED <<gain_db, normalized_audio>>
    /\ UNCHANGED <<appvars, cfgvars, is_running, total_files, idx, existed,
                   loudness, progress_log, sample_width, gvars, pvars, kvars, evars, cvars>>

\* save_audio: export, with its own try/except
SaveAudio ==
    /\ pc = "save"
    /\ \/ events' = events \o <<"export", "status:Saved normalized track">>
       \/ events' = events \o <<"export", "status:Error saving">>
    /\ pc' = "copy"
    /\ UNCHANGED <<appvars, cfgvars, is_running, total_files, idx, existed,
                   loudness, gain_db, outcomes, progress_log, finished_count,
                   gvars, pvars, kvars, evars, cvars,
                   sample_width, normalized_audio>>

\* copy_metadata, the "Processed" message and the progress signal
CopyMetadata ==
    /\ pc = "copy"
    /\ \E copied \in CopyMetadataResults :
          events' = events \o copied \o <<"status:Processed", "progress">>
    /\ outcomes' = Append(outcomes, Outcome("Processed"))
    /\ progress_log' = Append(progress_log, progress_percent(idx, total_files))
    /\ idx' = idx + 1
    /\ pc' = "loop"
    /\ UNCHANGED <<appvars, cfgvars, is_running, total_files, existed,
                   loudness, gain_db, finished_count, gvars, pvars, kvars, evars, cvars,
                   sample_width, normalized_audio>>

Next ==
    \/ StartNormalization
    \/ stop
    \/ processing_finished
    \/ GetAudioFiles
    \/ LoopHead
    \/ ExistingOutput
    \/ LoadAudio
    \/ Measure
    \/ Normalize
    \/ SaveAudio
    \/ CopyMetadata

Spec == Init /\ [][Next]_vars

----------------------------------------------------------------------------
(* The gain calculation on its own, over a range of inputs *)

GainLoudness == {NegInf} \cup {Num(10 * l + f) : l \in (-GainLo)..GainHi, f \in {0, 5}}
GainTargets  == {Num(-10 * GainLo), Num(-230), Num(-140), Num(-70), Num(0)}
GainMaxima   == {Num(0), Num(30), Num(max_gain_increase)}
GainLoudness2 == {NegInf} \cup {Num(10 * l + 3) : l \in (-GainLo)..GainHi}

GainInit ==
    /\ NoWorker
    /\ start_enabled = TRUE
    /\ clicked = NoClick
    /\ warning = "none"
    /\ RunIdle
    /\ g_pc = "in"
    /\ g_loudness \in GainLoudness
    /\ g_target \in GainTargets
    /\ g_max \in GainMaxima
    /\ g_out = [gain |-> NoFloat, clamped |-> FALSE]
    /\ g_loudness2 \in GainLoudness2
    /\ g_out2 = [gain |-> NoFloat, clamped |-> FALSE]
    /\ PcmIdle
    /\ ConvIdle
    /\ ChkIdle
    /\ EditIdle

GainCompute ==
    /\ g_pc = "in"
    /\ g_out' = normalize_gain(g_loudness, g_target, g_max)
    /\ g_out2' = normalize_gain(g_loudness2, g_target, g_max)
    /\ g_pc' = "out"
    /\ UNCHANGED <<appvars, cfgvars, is_running, runvars, pvars, kvars, evars, cvars,
                   g_loudness, g_target, g_max, g_loudness2>>

GainNext == GainCompute

SpecGain == GainInit /\ [][GainNext]_vars

----------------------------------------------------------------------------
(* The sample conversion of normalize_audio on its own: from the integer  *)
(* samples of the decoded segment to the integers handed to AudioSegment. *)
(* A float sample is kept as its numerator over 2^(8w-1), so the          *)
(* arithmetic is exact where the float arithmetic is exact.               *)

Sgn(x) == IF x > 0 THEN 1 ELSE IF x < 0 THEN -1 ELSE 0
Abs(x) == IF x < 0 THEN -x ELSE x

\* ndarray.astype(<integer dtype>) of the quotient a / b, b > 0: the C
\* conversion, which drops the fraction (truncation toward zero)
TruncDiv(a, b) == Sgn(a) * (Abs(a) \div b)

\* the exponent in 2 ** (8 * sample_width - 1)
full_scale_bits(w) == 8 * w - 1

\* audiosegment_to_numpy: max_val = float(2 ** (8 * sample_width - 1))
to_float_max_val(w) == 2^full_scale_bits(w)

\* max_val of half the scale
max_val_Half(w) == 2^(full_scale_bits(w) - 1) - 1

\* normalize_audio: max_val = float(2 ** (8 * sample_width - 1) - 1),
\* formed without the intermediate 2^31 of the 4-byte width
max_val(w) == (2^(full_scale_bits(w) - 1) - 1) * 2 + 1

\* the lowest value of np.int32
INT32_MIN == -2147483647 - 1

RECURSIVE BitLen(_)
BitLen(n) == IF n = 0 THEN 0 ELSE 1 + BitLen(n \div 2)

\* A float sample of the wide widths times 2^(8w-1): an integer, or (top)
\* the value +2^31, which is one above the largest integer kept here.
FNum(v) == [top |-> FALSE, v |-> v]
FTop    == [top |-> TRUE, v |-> 0]

\* samples.astype(np.float32) of an integer: float32 keeps 24 significant
\* bits, a longer integer is rounded to nearest, ties to even
Float32OfInt(v) ==
    LET a  == Abs(v)
        b  == BitLen(a)
    IN  IF b <= 24 THEN FNum(v)
        ELSE LET sp == 2^(b - 24)
                 q  == a \div sp
                 r  == a % sp
                 m  == IF 2 * r > sp \/ (2 * r = sp /\ q % 2 = 1) THEN q + 1 ELSE q
             IN  IF v < 0 THEN FNum((-m) * sp)
                 ELSE IF m = 2^24 /\ b = 31 THEN FTop
                 ELSE FNum(m * sp)

\* One sample of a 1- or 2-byte segment: s / 2^(8w-1) in
\* audiosegment_to_numpy, times the linear gain g in
\* pyln.normalize.loudness, np.clip to [-1.0, 1.0], times max_val,
\* astype(dtype).  For the gains used here (powers of two) every float32
\* product is exact or is rounded within the same integer interval, so the
\* truncation of the exact product is the truncation numpy computes.
narrow_den(w, g) == to_float_max_val(w) * g.d     \* denominator of the float

narrow_clipped(s, w, g) ==
    LET gained == s * g.n                         \* loudness_normalized
        den    == narrow_den(w, g)
    IN  IF gained > den THEN den
        ELSE IF gained < -den THEN -den ELSE gained

narrow_sample(s, w, g) ==
    TruncDiv(narrow_clipped(s, w, g) * max_val(w), narrow_den(w, g))

\* A float sample of a 3- or 4-byte segment after the gain (1 or 2) and
\* np.clip, times 2^(8w-1)
wide_clipped(s, w, g) ==
    LET bits == full_scale_bits(w)
        half == 2^(bits - 1)
        plus_one  == IF bits = 31 THEN FTop ELSE FNum(2 * half)
        minus_one == FNum((-half) * 2)
        f    == Float32OfInt(s)
    IN  IF f.top THEN FTop
        ELSE IF g.n = 1 THEN f
        ELSE IF f.v >= half THEN plus_one
        ELSE IF f.v <= -half THEN minus_one
        ELSE FNum(2 * f.v)

\* (normalized_samples * max_val).astype(np.int32) for one such sample:
\* the integers the build can produce.  With float32 samples the 4-byte
\* max_val 2147483647.0 is itself rounded to 2^31, so the product is the
\* numerator unchanged, and the conversion of 2^31 to int32 is undefined
\* in C: it wraps to INT32_MIN (x86) or saturates (ARM).  Otherwise the
\* product is y - y / 2^(8w-1), whose truncation is one step toward zero.
wide_sample(s, w, g, fl) ==
    LET y == wide_clipped(s, w, g)
    IN  IF fl = "float32" /\ w = 4
        THEN IF y.top THEN {INT32_MIN, max_val(w)} ELSE {y.v}
        ELSE IF y.top THEN {max_val(w)} ELSE {y.v - Sgn(y.v)}

\* lines 143, 160-161, 172-173 for one sample
quantize(s, w, g, fl) ==
    IF w <= 2 THEN {narrow_sample(s, w, g)} ELSE wide_sample(s, w, g, fl)

\* samples.reshape((-1, channels)): row n holds frame n
reshape(flat, ch) ==
    [n \in 1..(Len(flat) \div ch) |-> [i \in 1..ch |-> flat[(n - 1) * ch + i]]]

\* the channels written one after the other instead
interleave_Planar(rows, ch) ==
    [k \in 1..(Len(rows) * ch) |->
        rows[((k - 1) % Len(rows)) + 1][((k - 1) \div Len(rows)) + 1]]

\* interleaved[i::num_channels] = int_samples[:, i] for every channel i
interleave(rows, ch) ==
    [k \in 1..(Len(rows) * ch) |-> rows[((k - 1) \div ch) + 1][((k - 1) % ch) + 1]]

\* every array whose element k is one of the values in sets[k]
RECURSIVE ArraysOf(_)
ArraysOf(sets) ==
    IF Len(sets) = 0 THEN {<<>>}
    ELSE {Append(a, x) : a \in ArraysOf(SubSeq(sets, 1, Len(sets) - 1)),
                         x \in sets[Len(sets)]}

\* what the AudioSegment constructor receives
Segment(kind, data, itemsize, w, ch) ==
    [kind |-> kind, int_samples |-> data, itemsize |-> itemsize,
     nbytes |-> Len(data) * itemsize, sample_width |-> w, channels |-> ch]

\* normalize_audio from the decoded samples on: the segments it can return
normalize_audio_pcm(w, ch, samples, g, fl) ==
    IF sample_width_to_dtype(w) = 0
    THEN {Segment("original", samples, w, w, ch)}
    ELSE LET rows == reshape(samples, ch)
             q2d  == [n \in DOMAIN rows |->
                         [i \in 1..ch |-> quantize(rows[n][i], w, g, fl)]]
             flat == IF ch > 1 THEN interleave(q2d, ch)
                     ELSE [k \in DOMAIN samples |-> quantize(samples[k], w, g, fl)]
         IN  {Segment("new", a, sample_width_to_dtype(w), w, ch) : a \in ArraysOf(flat)}

\* the largest sample of a w-byte segment, and all samples of a narrow one
FullScale(w) == (2^(8 * w - 2) - 1) * 2 + 1
SampleRange(w) == (-FullScale(w) - 1)..FullScale(w)

\* 3- and 4-byte samples tried: zero, the smallest, half scale, the last
\* two values below full scale that float32 rounds apart, and full scale
WideSamples(w) ==
    LET M == FullScale(w)
    IN  {-M, -(M \div 2) - 1, -1, 0, 1, (M \div 2) + 1, M - 64, M - 63, M}

PcmGains == {[n |-> 1, d |-> 2], [n |-> 1, d |-> 1], [n |-> 2, d |-> 1]}
FloatTypes == {"float32", "float64"}

\* a buffer whose sample k is 3 * k: every position holds a different value
Ramp(n) == [k \in 1..n |-> 3 * k]

PcmInit ==
    /\ NoWorker
    /\ start_enabled = TRUE
    /\ clicked = NoClick
    /\ warning = "none"
    /\ RunIdle
    /\ GainIdle
    /\ ConvIdle
    /\ ChkIdle
    /\ EditIdle
    /\ p_pc = "in"
    /\ p_float \in FloatTypes
    /\ p_out = [kind |-> "none"]
    /\ \/ \* every sample value of the narrow widths, one sample
          /\ p_width \in {1, 2}
          /\ p_channels = 1
          /\ \E s \in SampleRange(p_width) : p_samples = <<s>>
          /\ p_gain \in PcmGains
       \/ \* the wide widths
          /\ p_width \in {3, 4}
          /\ p_channels = 1
          /\ \E s \in WideSamples(p_width) : p_samples = <<s>>
          /\ p_gain \in {g \in PcmGains : g.d = 1}
       \/ \* buffers of several frames and channels, any width
          /\ p_width \in SampleWidths
          /\ p_channels \in 1..MaxChannels
          /\ \E f \in 1..MaxFrames : p_samples = Ramp(f * p_channels)
          /\ p_gain = [n |-> 1, d |-> 1]

PcmNormalize ==
    /\ p_pc = "in"
    /\ p_out' \in normalize_audio_pcm(p_width, p_channels, p_samples, p_gain, p_float)
    /\ p_pc' = "out"
    /\ UNCHANGED <<appvars, cfgvars, is_running, runvars, gvars, cvars, kvars, evars,
                   p_width, p_channels, p_samples, p_gain, p_float>>

PcmNext == PcmNormalize

SpecPcm == PcmInit /\ [][PcmNext]_vars

----------------------------------------------------------------------------
(* ConversionWorker.run of audio_converter.py: the signals it emits and   *)
(* the calls it makes, in order                                           *)

max_retries == 3

Progress(msg, pct) == [sig |-> "progress", msg |-> msg, arg |-> pct]
Call(name, i)      == [sig |-> "call", msg |-> name, arg |-> i]
Sleep(seconds)     == [sig |-> "sleep", msg |-> "time.sleep", arg |-> seconds]
Finished           == [sig |-> "finished", msg |-> "", arg |-> 0]

\* the percent in thousandths
conv_progress_percent_Permille(k, n) == (k * 1000) \div n

\* int(k / total_files * 100), k = idx - 1 during a file and idx after it;
\* for the file counts tried here the float product has the same integer
\* part as the exact quotient
conv_progress_percent(k, n) == (k * 100) \div n

\* progress_percent while file c_idx is being worked on
PctNow == conv_progress_percent(c_idx - 1, c_total)

\* the thread as constructed and started: run() before its first iteration
ConvInit ==
    /\ NoWorker
    /\ start_enabled = TRUE
    /\ clicked = NoClick
    /\ warning = "none"
    /\ RunIdle
    /\ GainIdle
    /\ PcmIdle
    /\ ChkIdle
    /\ EditIdle
    /\ c_pc = "loop"
    /\ c_total \in 0..MaxConvFiles
    /\ c_idx = 1
    /\ c_attempt = 0
    /\ c_retry_delay = 0
    /\ c_events = <<>>

\* `continue`, or the end of the loop body: the next file
ConvNextFile ==
    /\ c_idx' = c_idx + 1
    /\ c_pc' = "loop"

\* the for statement: the first emit of an iteration, or finished.emit()
ConvLoopHead ==
    /\ c_pc = "loop"
    /\ IF c_idx > c_total
       THEN /\ c_events' = Append(c_events, Finished)
            /\ c_pc' = "done"
       ELSE /\ c_events' = Append(c_events, Progress("Processing file", PctNow))
            /\ c_pc' = "load"
    /\ UNCHANGED <<appvars, cfgvars, is_running, runvars, gvars, pvars, kvars, evars,
                   c_total, c_idx, c_attempt, c_retry_delay>>

\* ConvLoad leaving the loop on a load error
ConvLoad_Break ==
    /\ c_pc = "load"
    /\ \/ /\ c_events' = c_events \o <<Call("from_file", c_idx),
                                       Progress("Extracted Title", PctNow)>>
          /\ c_pc' = "export"
          /\ UNCHANGED c_idx
       \/ /\ c_events' = c_events \o <<Call("from_file", c_idx),
                                       Progress("Error loading", PctNow)>>
          /\ c_idx' = c_total + 1
          /\ c_pc' = "loop"
    /\ UNCHANGED <<appvars, cfgvars, is_running, runvars, gvars, pvars, kvars, evars,
                   c_total, c_attempt, c_retry_delay>>

\* AudioSegment.from_file, then get_name_artist (which catches everything)
ConvLoad ==
    /\ c_pc = "load"
    /\ \/ /\ c_events' = c_events \o <<Call("from_file", c_idx),
                                       Progress("Extracted Title", PctNow)>>
          /\ c_pc' = "export"
          /\ UNCHANGED c_idx
       \/ /\ c_events' = c_events \o <<Call("from_file", c_idx),
                                       Progress("Error loading", PctNow)>>
          /\ ConvNextFile
    /\ UNCHANGED <<appvars, cfgvars, is_running, runvars, gvars, pvars, kvars, evars,
                   c_total, c_attempt, c_retry_delay>>

\* audio.export(aiff_path, format='aiff')
ConvExport ==
    /\ c_pc = "export"
    /\ \/ /\ c_events' = c_events \o <<Call("export", c_idx),
                                       Progress("Converted", PctNow)>>
          /\ c_pc' = "tag"
          /\ UNCHANGED c_idx
       \/ /\ c_events' = c_events \o <<Call("export", c_idx),
                                       Progress("Error converting", PctNow)>>
          /\ ConvNextFile
    /\ UNCHANGED <<appvars, cfgvars, is_running, runvars, gvars, pvars, kvars, evars,
                   c_total, c_attempt, c_retry_delay>>

\* music_tag.load_file of both files, the title and artist tags and the
\* artwork of the original
ConvTag ==
    /\ c_pc = "tag"
    /\ \/ \* the original carries artwork
          /\ c_events' = c_events \o <<Call("load_file", c_idx),
                                       Progress("Artwork added", PctNow)>>
          /\ c_pc' = "savemeta"
          /\ UNCHANGED <<c_idx, c_attempt, c_retry_delay>>
       \/ \* it does not: the retry loop starts
          /\ c_events' = c_events \o <<Call("load_file", c_idx),
                                       Progress("No artwork found", PctNow)>>
          /\ c_attempt' = 1
          /\ c_retry_delay' = 5
          /\ c_pc' = "retry"
          /\ UNCHANGED c_idx
       \/ \* load_file or a tag assignment raises
          /\ c_events' = c_events \o <<Call("load_file", c_idx),
                                       Progress("Error setting metadata", PctNow)>>
          /\ ConvNextFile
          /\ UNCHANGED <<c_attempt, c_retry_delay>>
    /\ UNCHANGED <<appvars, cfgvars, is_running, runvars, gvars, pvars, kvars, evars, c_total>>

\* what one attempt can end in
AttemptResults == {"ok", "bad_status", "api_error", "exception"}

AttemptMessage(res) ==
    CASE res = "ok" -> "Generated and added artwork"
      [] res = "bad_status" -> "Failed to download image"
      [] res = "api_error" -> "Error generating artwork"
      [] res = "exception" -> "Unexpected error generating artwork"

\* ConvAttempt sleeping after every failed attempt, the last included
ConvAttempt_SleepsAlways ==
    /\ c_pc = "retry"
    /\ \E res \in AttemptResults :
          LET more   == c_attempt < max_retries
              called == c_events \o <<Call("Image.create", c_attempt),
                                      Progress(AttemptMessage(res), PctNow)>>
          IN  IF res = "ok"
              THEN /\ c_events' = called
                   /\ c_pc' = "savemeta"
                   /\ UNCHANGED <<c_attempt, c_retry_delay>>
              ELSE /\ c_events' = called \o <<Sleep(c_retry_delay)>>
                   /\ c_retry_delay' = c_retry_delay * 2
                   /\ c_attempt' = IF more THEN c_attempt + 1 ELSE c_attempt
                   /\ c_pc' = IF more THEN "retry" ELSE "savemeta"
    /\ UNCHANGED <<appvars, cfgvars, is_running, runvars, gvars, pvars, kvars, evars,
                   c_total, c_idx>>

\* one pass of `for attempt in range(1, max_retries + 1)`
ConvAttempt ==
    /\ c_pc = "retry"
    /\ \E res \in AttemptResults :
          LET more   == c_attempt < max_retries
              called == c_events \o <<Call("Image.create", c_attempt),
                                      Progress(AttemptMessage(res), PctNow)>>
          IN  IF res = "ok"
              THEN \* break
                   /\ c_events' = called
                   /\ c_pc' = "savemeta"
                   /\ UNCHANGED <<c_attempt, c_retry_delay>>
              ELSE /\ c_events' =
                         called \o
                         (IF more THEN <<Sleep(c_retry_delay)>>
                          ELSE IF res = "bad_status" THEN <<>>
                          ELSE <<Progress("Max retries reached. Skipping artwork.",
                                          PctNow)>>)
                   /\ c_retry_delay' = IF more THEN c_retry_delay * 2
                                       ELSE c_retry_delay
                   /\ c_attempt' = IF more THEN c_attempt + 1 ELSE c_attempt
                   /\ c_pc' = IF more THEN "retry" ELSE "savemeta"
    /\ UNCHANGED <<appvars, cfgvars, is_running, runvars, gvars, pvars, kvars, evars,
                   c_total, c_idx>>

\* f.save(), "Metadata updated" and the progress update of a finished file
ConvSave ==
    /\ c_pc = "savemeta"
    /\ \/ c_events' = c_events \o
              <<Call("save", c_idx),
                Progress("Metadata updated", PctNow),
                Progress("Extracted Title",
                         conv_progress_percent(c_idx, c_total))>>
       \/ c_events' = c_events \o
              <<Call("save", c_idx),
                Progress("Error setting metadata", PctNow)>>
    /\ ConvNextFile
    /\ UNCHANGED <<appvars, cfgvars, is_running, runvars, gvars, pvars, kvars, evars,
                   c_total, c_attempt, c_retry_delay>>

ConvNext ==
    \/ ConvLoopHead
    \/ ConvLoad
    \/ ConvExport
    \/ ConvTag
    \/ ConvAttempt
    \/ ConvSave

SpecConv == ConvInit /\ [][ConvNext]_vars

----------------------------------------------------------------------------
(* Either batch worker: a run of the normaliser or a run of the converter *)

BatchInit ==
    \/ Init
    \/ ConvInit

BatchNext ==
    \/ (c_pc = "off" /\ Next)
    \/ ConvNext

SpecBatch == BatchInit /\ [][BatchNext]_vars

----------------------------------------------------------------------------
(* AudioCheckerApp.check_audio_files of audio_checker.py, with the        *)
(* AudioFileInfo it builds for every file of the walk                     *)

\* Python's None for AudioFileInfo.lufs
None == [k |-> "None", v |-> 0]

\* load_info: the exponent of the divisor in
\* samples.astype(np.float32) / (2**15), the same for every sample width
checker_scale_bits(w) == 15

\* values the meter returns in the scans tried
CheckLufs == {NegInf, Num(-140), Num(-139), Num(-120)}

\* What AudioFileInfo(file_path) can come to.  The first try of load_info
\* either measures the file or catches an exception (from_file failing:
\* no width, or the meter raising) and leaves lufs None; the second try
\* sets metadata_exists.
AudioFileInfos ==
    {[lufs |-> l, sample_width |-> w, scale_bits |-> checker_scale_bits(w),
      metadata_exists |-> m] : l \in CheckLufs, w \in 1..4, m \in BOOLEAN}
    \cup
    {[lufs |-> None, sample_width |-> w, scale_bits |-> 0,
      metadata_exists |-> m] : w \in 0..4, m \in BOOLEAN}

\* np.isclose(a, b, atol=0.1) on values in tenths: the default rtol of 1e-5
\* adds less than a tenth of a tenth; equal infinities are close
isclose(a, b) ==
    IF a.k = "num" /\ b.k = "num" THEN Abs(a.v - b.v) <= 1
    ELSE a.k # "nan" /\ a = b

ChkInit ==
    /\ NoWorker
    /\ start_enabled = TRUE
    /\ clicked = NoClick
    /\ warning = "none"
    /\ RunIdle
    /\ GainIdle
    /\ PcmIdle
    /\ ConvIdle
    /\ EditIdle
    /\ k_pc = "idle"
    /\ k_total = 0
    /\ k_idx = 0
    /\ k_audio_files = <<>>
    /\ k_audio_list = <<>>
    /\ k_box = "none"

\* the "Check Audio Files" button: lines 120-129 and the start of os.walk
check_audio_files(folder_path) ==
    /\ k_pc \in {"idle", "done"}
    /\ IF folder_path = ""
       THEN /\ k_box' = "warning:Please select a folder first."
            /\ UNCHANGED <<k_pc, k_total, k_idx, k_audio_files, k_audio_list>>
       ELSE /\ k_audio_files' = <<>>
            /\ k_audio_list' = <<>>
            /\ k_box' = "none"
            /\ \E n \in 0..MaxCheckFiles : k_total' = n
            /\ k_idx' = 1
            /\ k_pc' = "scan"
    /\ UNCHANGED <<appvars, cfgvars, is_running, runvars, gvars, pvars,
                   cvars, evars>>

CheckAudioFiles == \E folder_path \in {"", "dirA"} : check_audio_files(folder_path)

\* one supported file of the walk: lines 136-142.  Formatting a lufs of
\* None with ":.2f" raises TypeError, which nothing in the handler catches.
ChkFile ==
    /\ k_pc = "scan"
    /\ k_idx <= k_total
    /\ \E audio_info \in AudioFileInfos :
          /\ k_audio_files' = Append(k_audio_files, audio_info)
          /\ IF audio_info.lufs = None
             THEN /\ k_pc' = "raised"
                  /\ UNCHANGED <<k_audio_list, k_idx>>
             ELSE /\ k_audio_list' = Append(k_audio_list, audio_info.lufs)
                  /\ k_idx' = k_idx + 1
                  /\ UNCHANGED k_pc
    /\ UNCHANGED <<appvars, cfgvars, is_running, runvars, gvars, pvars,
                   cvars, evars, k_total, k_box>>

\* after the walk: lines 144-152
ChkSummary ==
    /\ k_pc = "scan"
    /\ k_idx > k_total
    /\ LET measured == {i \in DOMAIN k_audio_files : k_audio_files[i].lufs # None}
       IN  k_box' =
             IF measured = {} THEN "none"
             ELSE LET first_lufs == k_audio_files[CHOOSE i \in measured :
                                        \A j \in measured : i <= j].lufs
                  IN  IF \A i \in measured :
                            isclose(k_audio_files[i].lufs, first_lufs)
                      THEN "information:All files have the same LUFS value"
                      ELSE "warning:Not all files have the same LUFS value."
    /\ k_pc' = "done"
    /\ UNCHANGED <<appvars, cfgvars, is_running, runvars, gvars, pvars,
                   cvars, evars, k_total, k_idx, k_audio_files, k_audio_list>>

ChkNext ==
    \/ CheckAudioFiles
    \/ ChkFile
    \/ ChkSummary

SpecChk == ChkInit /\ [][ChkNext]_vars

----------------------------------------------------------------------------
(* MetadataEditorApp.edit_metadata and MetadataEditorDialog.save_metadata *)
(* of audio_file_editor.py.  A text is a sequence of characters, the      *)
(* extension ".mp3" counting as one; all files are in one directory.      *)

EditTitles  == {<<>>, <<"?">>, <<"_">>}
EditArtists == {<<>>, <<"x">>}

\* the characters of the class [<>:"/\\|?*]
InvalidChars == {"<", ">", ":", "\"", "/", "\\", "|", "?", "*"}

\* re.sub(r'[<>:"/\\|?*]', '_', text)
re_sub(text) ==
    [i \in DOMAIN text |-> IF text[i] \in InvalidChars THEN "_" ELSE text[i]]

\* str.strip(): leading and trailing blanks removed
RECURSIVE strip(_)
strip(text) ==
    IF text = <<>> THEN text
    ELSE IF text[1] = " " THEN strip(Tail(text))
    ELSE IF text[Len(text)] = " " THEN strip(SubSeq(text, 1, Len(text) - 1))
    ELSE text

\* os.path.splitext(self.file_path)[1]
splitext_ext(path) ==
    IF Len(path) > 1 /\ path[Len(path)] = ".mp3" THEN <<".mp3">> ELSE <<>>

\* lines 160-163: the path the file would be renamed to
new_file_path(new_title, new_artist, file_path) ==
    strip(re_sub(new_title \o <<" ", "-", " ">> \o new_artist
                 \o splitext_ext(file_path)))

\* the two files selected in the list
Path1 == <<"s", ".mp3">>
Path2 == <<"_", " ", "-", " ", "x", ".mp3">>

EditPaths ==
    {Path1, Path2} \cup
    {new_file_path(t, a, Path1) : t \in EditTitles, a \in EditArtists}

NoFile == [exists |-> FALSE, id |-> 0, title |-> <<>>, artist |-> <<>>]
File(id, title, artist) ==
    [exists |-> TRUE, id |-> id, title |-> title, artist |-> artist]

Box(msg, title, artist) == [msg |-> msg, title |-> title, artist |-> artist]
NoBox == Box("none", <<>>, <<>>)

\* after select_files and populate_file_list
EditInit ==
    /\ NoWorker
    /\ start_enabled = TRUE
    /\ clicked = NoClick
    /\ warning = "none"
    /\ RunIdle
    /\ GainIdle
    /\ PcmIdle
    /\ ConvIdle
    /\ ChkIdle
    /\ \E t \in EditTitles, a \in EditArtists :
          e_fs = [p \in EditPaths |->
                    IF p = Path1 THEN File(1, t, a)
                    ELSE IF p = Path2 THEN File(2, <<"_">>, <<"x">>)
                    ELSE NoFile]
    /\ e_items = <<Path1, Path2>>
    /\ e_item = 0
    /\ e_file_path = <<>>
    /\ e_box = NoBox

\* a double click on item i: edit_metadata up to dialog.exec_()
EditOpen ==
    /\ e_item = 0
    /\ \E i \in DOMAIN e_items :
          /\ e_item' = i
          /\ e_file_path' = e_items[i]
          /\ e_box' = IF e_fs[e_items[i]].exists THEN NoBox
                      ELSE Box("warning:Error loading metadata", <<>>, <<>>)
    /\ UNCHANGED <<appvars, cfgvars, is_running, runvars, gvars, pvars,
                   cvars, kvars, e_fs, e_items>>

\* the Cancel button
EditReject ==
    /\ e_item # 0
    /\ e_item' = 0
    /\ UNCHANGED <<appvars, cfgvars, is_running, runvars, gvars, pvars,
                   cvars, kvars, e_fs, e_items, e_file_path, e_box>>

\* which call fails, if any
EditFaults == {"ok", "save_raises", "rename_raises", "reload_raises"}

\* accept(), and edit_metadata after dialog.exec_() returned true
EditAccepted(path, fault) ==
    /\ e_item' = 0
    /\ e_items' = IF fault = "reload_raises" THEN e_items
                  ELSE [e_items EXCEPT ![e_item] = path]

\* save_metadata without the os.path.exists test
save_metadata_NoExistsCheck(new_title, new_artist, fault) ==
    /\ e_item # 0
    /\ LET f      == e_fs[e_file_path]
           tagged == [e_fs EXCEPT ![e_file_path] =
                         File(f.id, new_title, new_artist)]
           target == new_file_path(new_title, new_artist, e_file_path)
       IN  IF ~f.exists \/ fault = "save_raises"
           THEN /\ e_box' = Box("warning:Error saving metadata", new_title, new_artist)
                /\ UNCHANGED <<e_fs, e_items, e_item, e_file_path>>
           ELSE IF new_title # f.title \/ new_artist # f.artist
           THEN IF fault = "rename_raises"
                THEN /\ e_fs' = tagged
                     /\ e_box' = Box("warning:Error saving metadata",
                                     new_title, new_artist)
                     /\ UNCHANGED <<e_items, e_item, e_file_path>>
                ELSE /\ e_fs' = [p \in DOMAIN tagged |->
                                   IF p = target THEN tagged[e_file_path]
                                   ELSE IF p = e_file_path THEN NoFile
                                   ELSE tagged[p]]
                     /\ e_file_path' = target
                     /\ e_box' = Box("information:Metadata saved and file renamed",
                                     new_title, new_artist)
                     /\ EditAccepted(target, fault)
           ELSE /\ e_fs' = tagged
                /\ e_box' = Box("information:Metadata saved successfully.",
                                new_title, new_artist)
                /\ UNCHANGED e_file_path
                /\ EditAccepted(e_file_path, fault)
    /\ UNCHANGED <<appvars, cfgvars, is_running, runvars, gvars, pvars,
                   cvars, kvars>>

\* the Save button: save_metadata with the texts of the two line edits,
\* and, when it accepts the dialog, the rest of edit_metadata
save_metadata(new_title, new_artist, fault) ==
    /\ e_item # 0
    /\ LET f      == e_fs[e_file_path]
           tagged == [e_fs EXCEPT ![e_file_path] =
                         File(f.id, new_title, new_artist)]
           target == new_file_path(new_title, new_artist, e_file_path)
       IN  IF ~f.exists \/ fault = "save_raises"
           THEN \* music_tag.load_file or f.save() raises: the except clause
                /\ e_box' = Box("warning:Error saving metadata", new_title, new_artist)
                /\ UNCHANGED <<e_fs, e_items, e_item, e_file_path>>
           ELSE IF new_title # f.title \/ new_artist # f.artist
           THEN IF tagged[target].exists
                THEN /\ e_fs' = tagged
                     /\ e_box' = Box("warning:Cannot rename file",
                                     new_title, new_artist)
                     /\ UNCHANGED e_file_path
                     /\ EditAccepted(e_file_path, fault)
                ELSE IF fault = "rename_raises"
                THEN \* os.rename raises after the tags were saved
                     /\ e_fs' = tagged
                     /\ e_box' = Box("warning:Error saving metadata",
                                     new_title, new_artist)
                     /\ UNCHANGED <<e_items, e_item, e_file_path>>
                ELSE /\ e_fs' = [tagged EXCEPT ![target] = tagged[e_file_path],
                                               ![e_file_path] = NoFile]
                     /\ e_file_path' = target
                     /\ e_box' = Box("information:Metadata saved and file renamed",
                                     new_title, new_artist)
                     /\ EditAccepted(target, fault)
           ELSE /\ e_fs' = tagged
                /\ e_box' = Box("information:Metadata saved successfully.",
                                new_title, new_artist)
                /\ UNCHANGED e_file_path
                /\ EditAccepted(e_file_path, fault)
    /\ UNCHANGED <<appvars, cfgvars, is_running, runvars, gvars, pvars,
                   cvars, kvars>>

SaveMetadata ==
    \E t \in EditTitles, a \in EditArtists, fault \in EditFaults :
        save_metadata(t, a, fault)

EditNext ==
    \/ EditOpen
    \/ EditReject
    \/ SaveMetadata

SpecEdit == EditInit /\ [][EditNext]_vars

----------------------------------------------------------------------------
(* Properties *)

Has(e) == \E i \in DOMAIN events : events[i] = e

\* the positions of run() inside the body of the loop
FileStages == {"exists", "load", "measure", "normalize", "save", "copy"}

LastOutcome == outcomes[Len(outcomes)]

\* C1: no failure of a per-file stage aborts the batch: from a stage of a
\* file the worker only goes on to a later stage of that file or back to the
\* head of the loop for the next file.
C1_StageFailureAbortsBatch ==
    [][(pc \in FileStages) => (pc' \in FileStages \/ pc' = "loop")]_vars

\* C2: a run that was not cancelled ends with exactly one outcome per
\* discovered file, in discovery order.
C2_OneOutcomePerFile ==
    (pc = "done" /\ is_running /\ total_files > 0) =>
        /\ Len(outcomes) = total_files
        /\ \A k \in 1..Len(outcomes) : outcomes[k].file = k

\* C3: when load_audio fails the error is reported for the file, the file is
\* neither measured, normalized, exported nor given metadata, and the worker
\* is back at the head of the loop for the next file.
C3_DecodeFailureSkipsFile ==
    Has("status:Error loading") =>
        /\ ~Has("integrated_loudness")
        /\ ~Has("normalize_audio")
        /\ ~Has("export")
        /\ ~Has("copy_metadata")
        /\ pc = "loop"
        /\ Len(outcomes) > 0
        /\ LastOutcome = [file |-> idx - 1, result |-> "Error loading"]

C3_Witness ==
    /\ Has("status:Error loading")
    /\ is_running
    /\ idx <= total_files

\* C4: after a failed export no metadata copy is made for that file.
C4_EncodeFailureSkipsMetadata ==
    Has("status:Error saving") => ~Has("copy_metadata")

\* C5: for an existing output the metadata is checked; complete metadata
\* means the file is skipped without a copy, incomplete metadata or a failed
\* check means a copy is requested and the file ends as "metadata copied".
C5_ExistingOutputMetadata ==
    /\ (Has("status:already exists") /\ pc # "exists") =>
           Has("check_metadata=True") \/ Has("check_metadata=False")
    /\ Has("check_metadata=True") =>
           /\ ~Has("copy_metadata")
           /\ Has("status:Skipping")
           /\ LastOutcome = [file |-> idx - 1, result |-> "Skipping"]
    /\ Has("check_metadata=False") =>
           /\ Has("copy_metadata")
           /\ ~Has("status:Skipping")
           /\ LastOutcome = [file |-> idx - 1,
                             result |-> "Copied missing metadata"]

C5_Witness ==
    /\ Has("status:Error checking metadata")
    /\ Has("copy_metadata")
    /\ Len(outcomes) > 1
    /\ outcomes[Len(outcomes) - 1].result = "Skipping"

\* C6: a file whose output existed when it was reached is never decoded,
\* measured, normalized or exported.
C6_ExistingOutputNotReencoded ==
    /\ Has("status:already exists") =>
           /\ existed
           /\ ~Has("load_audio")
           /\ ~Has("integrated_loudness")
           /\ ~Has("normalize_audio")
           /\ ~Has("export")
    /\ (Has("load_audio") \/ Has("export")) => ~existed

C6_Witness ==
    /\ existed
    /\ Has("copy_metadata")
    /\ pc = "loop"

\* C7: a file that was started always ends with an outcome of its own,
\* cancelled or not, and once the flag is cleared the head of the loop
\* starts no further file.
C7_CancelOnlyBetweenFiles ==
    [][ /\ (pc \in FileStages /\ pc' \notin FileStages) =>
               /\ Len(outcomes') = Len(outcomes) + 1
               /\ outcomes'[Len(outcomes')].file = idx
        /\ (pc \in FileStages /\ pc' \in FileStages) => idx' = idx
        /\ (~is_running /\ pc \notin FileStages) => pc' \notin FileStages
      ]_vars

C7_Witness ==
    /\ ~is_running
    /\ pc = "copy"
    /\ idx < total_files

\* C8: while a worker lives its flag only goes from running to stopped, and
\* a step that changes the flag changes nothing of run().
C8_FlagOneWay ==
    [][ (worker_thread = "Worker" /\ worker_thread' = "Worker") =>
            /\ ~is_running => ~is_running'
            /\ is_running' # is_running => UNCHANGED runvars
      ]_vars

C8_Witness ==
    /\ ~is_running
    /\ pc = "done"
    /\ Len(outcomes) > 0

\* C9: a worker exists only for a valid configuration, a start with an
\* invalid one shows a warning and leaves everything idle, and the targets
\* -60 and 0 are accepted.
FolderValid(t) == Strip(t) # "" /\ IsDir(Strip(t))

TargetValid(t) ==
    /\ ~ParseFloat(Strip(t)).raised
    /\ ParseFloat(Strip(t)).val.k = "num"
    /\ ParseFloat(Strip(t)).val.v >= -600
    /\ ParseFloat(Strip(t)).val.v <= 0

ClickValid ==
    /\ FolderValid(clicked.inp)
    /\ FolderValid(clicked.out)
    /\ TargetValid(clicked.tgt)

C9_ConfigErrorsAreFatal ==
    /\ worker_thread = "Worker" => ClickValid
    /\ (clicked # NoClick /\ ~ClickValid) =>
           /\ warning # "none"
           /\ NoWorker
           /\ RunIdle
    /\ (clicked # NoClick /\ FolderValid(clicked.inp)
           /\ FolderValid(clicked.out) /\ clicked.tgt \in {"-60", "0"}) =>
           worker_thread = "Worker"

C9_Witness ==
    /\ clicked = [inp |-> " dirA ", out |-> " dirA ", tgt |-> "-60.1"]
    /\ warning = "range"
    /\ worker_thread = "None"

\* C10: for a finite measured loudness the applied gain is target - measured
\* unless that exceeds max_gain_increase, in which case it is exactly
\* max_gain_increase and the limit is reported; a smaller or negative gain
\* is applied as it is and nothing is reported.
C10_GainClamp ==
    (g_pc = "out" /\ g_loudness.k = "num") =>
        LET d == g_target.v - g_loudness.v
        IN  IF d > g_max.v
            THEN g_out = [gain |-> g_max, clamped |-> TRUE]
            ELSE g_out = [gain |-> Num(d), clamped |-> FALSE]

C10_Witness ==
    /\ g_pc = "out"
    /\ g_loudness = Num(-400)
    /\ g_target = Num(-70)
    /\ g_max = Num(60)
    /\ g_out = [gain |-> Num(60), clamped |-> TRUE]

\* C11: a file measured as silence (-inf) gets gain 0, no limit message, and
\* its original buffer is what goes to the encoder.
C11_SilenceGainZero ==
    (loudness = NegInf /\ Has("status:Normalized to")) =>
        /\ gain_db = Num(0)
        /\ ~Has("status:Limiting gain increase")
        /\ normalized_audio = "original"

\* a >= b on floats
FGe(a, b) == FLe(b, a)

\* C12 as stated: for any two measured values L1 < L2, the sentinel
\* included, the gain for L1 is at least the gain for L2.
C12_MonotoneAnyLoudness ==
    (g_pc = "out" /\ FGt(g_loudness2, g_loudness)) =>
        FGe(g_out.gain, g_out2.gain)

\* C12 amended: for two finite measured values L1 < L2, same target and same
\* max_gain_increase, the gain for L1 is at least the gain for L2.
C12_MonotoneFiniteLoudness ==
    (g_pc = "out" /\ g_loudness.k = "num" /\ g_loudness2.k = "num"
        /\ FGt(g_loudness2, g_loudness)) =>
        FGe(g_out.gain, g_out2.gain)

C12_Witness ==
    /\ g_pc = "out"
    /\ g_loudness = Num(-200)
    /\ g_loudness2 = Num(-97)
    /\ g_target = Num(-140)
    /\ g_max = Num(max_gain_increase)
    /\ g_out = [gain |-> Num(60), clamped |-> FALSE]
    /\ g_out2 = [gain |-> Num(-43), clamped |-> FALSE]

\* C13: for a sample width without a dtype the width is reported, the
\* original segment is what normalize_audio returns and what is exported,
\* and the file goes on through save and metadata copy; the report is made
\* for no other width.
C13_UnsupportedWidthPassThrough ==
    /\ (Has("status:Normalized to") /\ sample_width \notin {1, 2, 3, 4}) =>
           /\ Has("status:Unsupported sample width")
           /\ normalized_audio = "original"
           /\ pc \in {"save", "copy", "loop"}
    /\ Has("export") => normalized_audio \in {"original", "new"}
    /\ Has("status:Unsupported sample width") =>
           sample_width \notin {1, 2, 3, 4}
    /\ normalized_audio = "original" => sample_width \notin {1, 2, 3, 4}

C13_Witness ==
    /\ sample_width = 8
    /\ normalized_audio = "original"
    /\ Has("export")
    /\ Has("status:Processed")
    /\ idx <= total_files

\* C15: a 16-bit sample divided by 2^15 and converted back with no gain
\* applied comes back within one least-significant bit, for every sample
\* value from -32768 to 32767
C15_RoundTrip16 ==
    (p_pc = "out" /\ p_width = 2 /\ p_gain = [n |-> 1, d |-> 1]) =>
        /\ p_out.kind = "new"
        /\ \A k \in DOMAIN p_samples :
              Abs(p_out.int_samples[k] - p_samples[k]) <= 1

C15_Witness ==
    /\ p_pc = "out" /\ p_width = 2 /\ p_gain = [n |-> 1, d |-> 1]
    /\ p_samples = <<-32768>>
    /\ p_out.int_samples = <<-32767>>

\* the place of a call among the stages of one file
StageRank(e) ==
    CASE e = "load_audio" -> 1
      [] e = "integrated_loudness" -> 2
      [] e = "normalize.loudness" -> 3
      [] e = "astype" -> 4
      [] e = "export" -> 5
      [] e = "copy_metadata" -> 6
      [] OTHER -> 0

\* C17: the stages of a file are issued in the order decode, measure, gain,
\* quantize, encode, metadata copy; an export is never issued before the
\* measurement and the gain; outside the existing-output branch metadata is
\* copied only after the export; a normalized file went through all six
C17_StageOrder ==
    /\ \A i, j \in DOMAIN events :
          (i < j /\ StageRank(events[i]) > 0 /\ StageRank(events[j]) > 0)
              => StageRank(events[i]) < StageRank(events[j])
    /\ Has("export") => (Has("integrated_loudness") /\ Has("normalize.loudness"))
    /\ (Has("copy_metadata") /\ ~Has("status:already exists")) => Has("export")
    /\ (Has("status:Processed") /\ normalized_audio = "new") =>
          \A r \in 1..6 : \E i \in DOMAIN events : StageRank(events[i]) = r

C17_Witness ==
    /\ Has("status:Processed")
    /\ Has("status:Saved normalized track")
    /\ normalized_audio = "new"
    /\ Has("copy_metadata")
    /\ Len(outcomes) = 2

\* C18: the integer written for a float sample is the integer nearest to
\* the sample times 2^(8*width-1) - 1, within the range of the width
C18_RoundToNearest ==
    (p_pc = "out" /\ p_width \in {1, 2}) =>
        \A k \in DOMAIN p_samples :
            LET den  == narrow_den(p_width, p_gain)
                num  == narrow_clipped(p_samples[k], p_width, p_gain) * max_val(p_width)
                out  == p_out.int_samples[k]
            IN  /\ 2 * Abs(out * den - num) <= den
                /\ out \in SampleRange(p_width)

\* C19: for the widths 1 to 4 the data handed to AudioSegment has exactly
\* sample_width bytes for every sample of every channel
C19_BytesPerSample ==
    (p_pc = "out" /\ p_width \in {1, 2, 3, 4}) =>
        /\ p_out.itemsize = p_width
        /\ p_out.nbytes = Len(p_samples) * p_width
        /\ p_out.sample_width = p_width
        /\ p_out.channels = p_channels

\* C20: every quantized sample lies between -(2^(8*width-1) - 1) and
\* 2^(8*width-1) - 1, whatever the input and the gain
C20_NoWrap ==
    (p_pc = "out" /\ p_out.kind = "new") =>
        \A k \in DOMAIN p_out.int_samples :
            /\ p_out.int_samples[k] >= -FullScale(p_width)
            /\ p_out.int_samples[k] <= FullScale(p_width)

\* C16: every percent on a progress signal of either worker is an integer
\* from 0 to 100, nothing is emitted after the completion signal, and a
\* run that has ended has emitted it
C16_ProgressChannel ==
    /\ \A i \in DOMAIN progress_log : progress_log[i] \in 0..100
    /\ finished_count > 0 => pc = "done"
    /\ pc = "done" => finished_count >= 1
    /\ \A i \in DOMAIN c_events :
          /\ c_events[i].sig = "progress" => c_events[i].arg \in 0..100
          /\ c_events[i] = Finished => (i = Len(c_events) /\ c_pc = "done")
    /\ c_pc = "done" => (c_events # <<>> /\ c_events[Len(c_events)] = Finished)

C16_Witness ==
    /\ c_pc = "done"
    /\ c_total = 2
    /\ \E i \in DOMAIN c_events : c_events[i] = Progress("Error loading", 0)
    /\ \E i \in DOMAIN c_events : c_events[i] = Progress("Extracted Title", 100)
    /\ c_events[Len(c_events)] = Finished

\* C22: after de-interleaving and re-interleaving, position n * channels + i
\* of the output (counting frames and channels from 0) holds the sample of
\* channel i of frame n, that is the quantized sample of the same position
\* of the input
C22_ChannelOrder ==
    (p_pc = "out" /\ p_out.kind = "new") =>
        /\ Len(p_out.int_samples) = Len(p_samples)
        /\ \A n \in 1..(Len(p_samples) \div p_channels) : \A i \in 1..p_channels :
              p_out.int_samples[(n - 1) * p_channels + i]
                  \in quantize(p_samples[(n - 1) * p_channels + i],
                               p_width, p_gain, p_float)

C22_Witness ==
    /\ p_pc = "out"
    /\ p_width = 2
    /\ p_channels = 2
    /\ p_samples = <<3, 6, 9, 12>>
    /\ p_out.int_samples = <<2, 5, 8, 11>>

IsAttempt(e) == e.sig = "call" /\ e.msg = "Image.create"

\* C23: an artwork attempt has a number from 1 to max_retries; the first
\* follows "No artwork found" and every other follows a sleep; nothing but
\* the save follows a success; a sleep follows a failed attempt that is
\* not the last, lasts 5 s after the first and 10 s after the second, and
\* is followed by the next attempt
C23_RetryBounded ==
    \A i \in DOMAIN c_events :
        LET e == c_events[i]
        IN  /\ IsAttempt(e) =>
                  /\ e.arg \in 1..max_retries
                  /\ i > 1
                  /\ IF e.arg = 1
                     THEN c_events[i - 1].msg = "No artwork found"
                     ELSE c_events[i - 1].sig = "sleep"
                  /\ i < Len(c_events)
                  /\ c_events[i + 1].msg = "Generated and added artwork" =>
                        IF i + 1 = Len(c_events) THEN c_pc = "savemeta"
                        ELSE c_events[i + 2].msg = "save"
            /\ e.sig = "sleep" =>
                  /\ i > 2
                  /\ IsAttempt(c_events[i - 2])
                  /\ c_events[i - 2].arg < max_retries
                  /\ e.arg = 5 * 2^(c_events[i - 2].arg - 1)
                  /\ IF i = Len(c_events) THEN c_pc = "retry"
                     ELSE c_events[i + 1] = Call("Image.create", c_events[i - 2].arg + 1)

C23_Witness ==
    /\ c_pc = "done"
    /\ \E i \in DOMAIN c_events : c_events[i] = Sleep(5)
    /\ \E i \in DOMAIN c_events : c_events[i] = Sleep(10)
    /\ \E i \in DOMAIN c_events :
          /\ c_events[i] = Call("Image.create", max_retries)
          /\ c_events[i + 1].msg = "Error generating artwork"
          /\ c_events[i + 2].sig # "sleep"

\* C24: when the last attempt of the retry loop fails, whatever the kind of
\* failure, "Max retries reached. Skipping artwork." is emitted once, and
\* the next thing that happens is the save of the metadata
C24_TerminalFailureEvent ==
    \A i \in DOMAIN c_events :
        (/\ c_events[i] = Call("Image.create", max_retries)
         /\ c_events[i + 1].msg # "Generated and added artwork") =>
            /\ i + 2 <= Len(c_events)
            /\ c_events[i + 2].msg = "Max retries reached. Skipping artwork."
            /\ i + 3 <= Len(c_events) => c_events[i + 3].msg = "save"

\* C25: a run of NormalizationWorker.run that has ended has emitted the
\* finished signal exactly once, on every path
C25_FinishedExactlyOnce ==
    /\ pc = "done" => finished_count = 1
    /\ finished_count > 0 => pc = "done"

IsLoad(e) == e.sig = "call" /\ e.msg = "from_file"

\* C26: the k-th file loaded by ConversionWorker.run is input file k; a
\* run that has ended has loaded every input file once, whatever failed,
\* and has emitted finished exactly once, as its last signal
C26_EachFileOnce ==
    /\ \A i \in DOMAIN c_events :
          IsLoad(c_events[i]) =>
              c_events[i].arg = Cardinality({j \in 1..i : IsLoad(c_events[j])})
    /\ c_pc = "done" =>
          /\ Cardinality({j \in DOMAIN c_events : IsLoad(c_events[j])}) = c_total
          /\ Cardinality({j \in DOMAIN c_events : c_events[j] = Finished}) = 1
          /\ c_events[Len(c_events)] = Finished

C26_Witness ==
    /\ c_pc = "done"
    /\ c_total = 2
    /\ \E i \in DOMAIN c_events : c_events[i] = Progress("Error loading", 0)
    /\ \E i \in DOMAIN c_events : c_events[i] = Progress("Error converting", 50)

\* C21: wherever the checker measures a file, the divisor that turned its
\* integer samples into floats is 2^(8*width-1), the full scale of the
\* file's own sample width
C21_DivisorIsFullScale ==
    \A i \in DOMAIN k_audio_files :
        k_audio_files[i].lufs # None =>
            k_audio_files[i].scale_bits = full_scale_bits(k_audio_files[i].sample_width)

\* C27: a file whose lufs is unset does not abort the scan: nothing is
\* raised out of the handler, every examined file is listed, and a scan
\* that has ended has examined and listed every file of the walk
C27_ScanSurvivesUnmeasured ==
    /\ k_pc # "raised"
    /\ k_pc \in {"scan", "done"} => Len(k_audio_list) = Len(k_audio_files)
    /\ k_pc = "done" => Len(k_audio_files) = k_total

ExistingIds(fs) == {fs[p].id : p \in {q \in DOMAIN fs : fs[q].exists}}

\* C28: a save never changes, removes or replaces a file other than the
\* one the dialog edits, and never loses a file; the dialog's file_path
\* changes exactly when the file was renamed, which happens only when the
\* title or the artist changed and nothing existed at the new path
\* "<title> - <artist><ext>"; and after a save that wrote the tags,
\* file_path names the file that holds them
C28_SaveNeverOverwrites ==
    [][/\ \A p \in DOMAIN e_fs :
             (e_fs[p].exists /\ p # e_file_path) => e_fs'[p] = e_fs[p]
       /\ ExistingIds(e_fs') = ExistingIds(e_fs)
       /\ (e_item # 0) =>
             /\ (e_file_path' # e_file_path) <=>
                    (e_fs[e_file_path].exists /\ ~e_fs'[e_file_path].exists)
             /\ (e_file_path' # e_file_path) =>
                    /\ ~e_fs[e_file_path'].exists
                    /\ e_file_path' = new_file_path(e_box'.title, e_box'.artist,
                                                    e_file_path)
                    /\ \/ e_fs[e_file_path].title # e_box'.title
                       \/ e_fs[e_file_path].artist # e_box'.artist
             /\ (e_box'.msg \in {"information:Metadata saved and file renamed",
                                 "information:Metadata saved successfully.",
                                 "warning:Cannot rename file"}) =>
                    e_fs'[e_file_path'] = File(e_fs[e_file_path].id,
                                               e_box'.title, e_box'.artist)
      ]_vars

C28_Witness ==
    /\ e_box = Box("warning:Cannot rename file", <<"?">>, <<"x">>)
    /\ e_items[1] # Path1
    /\ e_file_path = e_items[1]
    /\ e_fs[e_file_path] = File(1, <<"?">>, <<"x">>)
    /\ e_fs[Path2].id = 2

====
